---------------------------- MODULE Spec2Model ----------------------------
(***************************************************************************)
(* Model of src/chat.py: the tutorial button handler, the concept parser,  *)
(* the English filter, the video search / statistics clients, the rating   *)
(* and find_top_rated_videos.  Strings are TLA+ strings; SubSeq, Len and   *)
(* \o give characters, length and concatenation.  Ratings are kept in      *)
(* tenths (9.0 is 90), computed with exact integer arithmetic.             *)
(***************************************************************************)
EXTENDS Integers, Sequences, FiniteSets, TLC

VARIABLES
    user_input,     \* st.text_input value of this script run
    pc,             \* position of the script run
    topics,         \* final_concepts handed to find_top_rated_videos
    ti,             \* index of the topic the for loop is at
    videos,         \* search_videos result for the current topic
    vi,             \* index of the video the inner loop is at
    results,        \* results list of the current topic
    all_results,    \* the dict built by find_top_rated_videos
    top_videos,     \* what find_top_rated_videos gave the handler
    shown,          \* what the handler displayed
    calls,          \* history: the remote calls issued, in order
    last_search,    \* history: the search response of the current topic
    fetched,        \* history: the statistics responses of the current topic
    kept,           \* history: what was computed for each finished topic
    rating_in,      \* arguments of a direct calculate_rating call
    rating_out      \* its result

vars == <<user_input, pc, topics, ti, videos, vi, results, all_results,
          top_videos, shown, calls, last_search, fetched, kept,
          rating_in, rating_out>>

-----------------------------------------------------------------------------
(* Characters and strings *)

Ch(s, i) == SubSeq(s, i, i)

UpperChars == "ABCDEFGHIJKLMNOPQRSTUVWXYZ"
LowerChars == "abcdefghijklmnopqrstuvwxyz"
DigitChars == "0123456789"
OtherAscii == " \t\n\r\f!#$%&'()*+,-./:;<=>?@[]^_{|}~"

CharsOf(s) == {Ch(s, i) : i \in 1..Len(s)}

UpperSet == CharsOf(UpperChars)
LowerSet == CharsOf(LowerChars)
DigitSet == CharsOf(DigitChars)

\* the characters \x00-\x7F that strings of the model are written with
AsciiChars == UpperSet \cup LowerSet \cup DigitSet \cup CharsOf(OtherAscii)

\* \s of the re module
IsSpace(c) == c \in {" ", "\t", "\n", "\r", "\f"}

\* \w of the re module (str patterns: letters of any script, digits, _)
IsWordChar(c) ==
    \/ c \in UpperSet \cup LowerSet \cup DigitSet
    \/ c = "_"
    \/ (Len(c) = 1 /\ c \notin AsciiChars)

\* str.lower() of one character
LowerOf == [c \in UpperSet |->
               Ch(LowerChars, CHOOSE i \in 1..26 : Ch(UpperChars, i) = c)]

LowerCh(c) == IF c \in UpperSet THEN LowerOf[c] ELSE c

RECURSIVE lower(_)
lower(s) == IF Len(s) = 0 THEN "" ELSE LowerCh(Ch(s, 1)) \o lower(Tail(s))

\* needle in hay
Contains(hay, needle) ==
    \E i \in 1..(Len(hay) - Len(needle) + 1) :
        SubSeq(hay, i, i + Len(needle) - 1) = needle

\* str.strip()
RECURSIVE lstrip(_)
lstrip(s) == IF Len(s) > 0 /\ IsSpace(Ch(s, 1)) THEN lstrip(Tail(s)) ELSE s

RECURSIVE rstrip(_)
rstrip(s) ==
    IF Len(s) > 0 /\ IsSpace(Ch(s, Len(s)))
    THEN rstrip(SubSeq(s, 1, Len(s) - 1))
    ELSE s

strip(s) == rstrip(lstrip(s))

\* len(s.split()): the number of maximal runs of non-whitespace
WordCount(s) ==
    Cardinality({i \in 1..Len(s) :
        /\ ~IsSpace(Ch(s, i))
        /\ (i = 1 \/ IsSpace(Ch(s, i - 1)))})

-----------------------------------------------------------------------------
\* re.split on the pattern  \s*,\s* | \s+and\s+ | \s+or\s+  (line 180)

\* first index at or after p that holds no whitespace
RECURSIVE SkipSpaces(_, _)
SkipSpaces(s, p) ==
    IF p <= Len(s) /\ IsSpace(Ch(s, p)) THEN SkipSpaces(s, p + 1) ELSE p

\* the literal word at q, as the pattern compares it
WordAt(s, q, word, ignorecase) ==
    /\ q + Len(word) - 1 <= Len(s)
    /\ LET got == SubSeq(s, q, q + Len(word) - 1)
       IN  IF ignorecase THEN lower(got) = word ELSE got = word

\* Index after the match of the pattern that starts at p, 0 when none
\* starts there.  The greedy \s* and \s+ take the whole whitespace run;
\* giving characters back never helps, a whitespace is neither "," nor a
\* letter.
MatchEnd(s, p, ignorecase) ==
    LET q == SkipSpaces(s, p)
    IN  IF q <= Len(s) /\ Ch(s, q) = ","
        THEN SkipSpaces(s, q + 1)
        ELSE IF q > p /\ WordAt(s, q, "and", ignorecase)
                      /\ SkipSpaces(s, q + 3) > q + 3
        THEN SkipSpaces(s, q + 3)
        ELSE IF q > p /\ WordAt(s, q, "or", ignorecase)
                      /\ SkipSpaces(s, q + 2) > q + 2
        THEN SkipSpaces(s, q + 2)
        ELSE 0

\* the pieces between the leftmost non-overlapping matches
RECURSIVE SplitFrom(_, _, _, _)
SplitFrom(s, start, p, ignorecase) ==
    IF p > Len(s)
    THEN <<SubSeq(s, start, Len(s))>>
    ELSE IF MatchEnd(s, p, ignorecase) # 0
    THEN <<SubSeq(s, start, p - 1)>>
            \o SplitFrom(s, MatchEnd(s, p, ignorecase),
                         MatchEnd(s, p, ignorecase), ignorecase)
    ELSE SplitFrom(s, start, p + 1, ignorecase)

re_split(s) == SplitFrom(s, 1, 1, FALSE)

InPython == " in Python"

\* line 180, over the pieces of the split
RECURSIVE with_in_python(_)
with_in_python(parts) ==
    IF Len(parts) = 0 THEN <<>>
    ELSE <<strip(Head(parts)) \o InPython>> \o with_in_python(Tail(parts))

concepts(input) == with_in_python(re_split(input))

\* line 183, over the concepts
RECURSIVE single_words_extended(_)
single_words_extended(cs) ==
    IF Len(cs) = 0 THEN <<>>
    ELSE <<IF WordCount(Head(cs)) = 1 THEN Head(cs) \o InPython ELSE Head(cs)>>
            \o single_words_extended(Tail(cs))

final_concepts(input) == single_words_extended(concepts(input))

-----------------------------------------------------------------------------
(* is_english, lines 48-52 *)

LanguageNames == {"Hindi", "Chinese", "French", "German", "Spanish",
                  "Japanese", "Korean", "Russian"}

\* \b before index i of text: exactly one of the two neighbours is \w
WordBoundary(text, i) ==
    LET before == i > 1 /\ IsWordChar(Ch(text, i - 1))
        after  == i <= Len(text) /\ IsWordChar(Ch(text, i))
    IN  before # after

\* re.search(r'\b(?:Hindi|...|Russian)\b', text, re.IGNORECASE)
HasLanguageName(text) ==
    \E w \in LanguageNames :
        \E i \in 1..(Len(text) - Len(w) + 1) :
            /\ lower(SubSeq(text, i, i + Len(w) - 1)) = lower(w)
            /\ WordBoundary(text, i)
            /\ WordBoundary(text, i + Len(w))

\* re.search(r'[^\x00-\x7F]+', text, re.IGNORECASE)
HasNonAscii(text) == \E i \in 1..Len(text) : Ch(text, i) \notin AsciiChars

is_english(text) == ~(HasLanguageName(text) \/ HasNonAscii(text))

-----------------------------------------------------------------------------
(* search_videos, lines 55-91 *)

max_results == 2

WatchUrl == "https://www.youtube.com/watch?v="

\* lines 68-86: the items that pass the filter, in the response's order
RECURSIVE video_details_of(_)
video_details_of(items) ==
    IF Len(items) = 0 THEN <<>>
    ELSE LET item == Head(items)
         IN  (IF ~is_english(item.title) \/ ~is_english(item.description)
              THEN <<>>
              ELSE <<[video_id      |-> item.videoId,
                      title         |-> item.title,
                      url           |-> WatchUrl \o item.videoId,
                      channel_title |-> item.channelTitle,
                      published_at  |-> item.publishedAt]>>)
             \o video_details_of(Tail(items))

\* mutant: the except branch gives an empty list instead of the message
search_videos_swallow(response) ==
    [type |-> "list", text |-> "",
     list |-> IF response.raised THEN <<>> ELSE video_details_of(response.items)]

\* what request.execute() did: raised HttpError(error) or gave items
search_videos(response) ==
    IF response.raised
    THEN [type |-> "str", text |-> "An HTTP error occurred: " \o response.error,
          list |-> <<>>]
    ELSE [type |-> "list", text |-> "", list |-> video_details_of(response.items)]

-----------------------------------------------------------------------------
(* get_video_details, lines 94-105 *)

DigitVal(c) == (CHOOSE i \in 1..10 : Ch(DigitChars, i) = c) - 1

\* int() of a numeric string
RECURSIVE int(_)
int(s) ==
    IF Len(s) = 0 THEN 0
    ELSE 10 * int(SubSeq(s, 1, Len(s) - 1)) + DigitVal(Ch(s, Len(s)))

\* stats.get(key, 0), then int()
int_get(stats, key) == IF key \in DOMAIN stats THEN int(stats[key]) ELSE 0

\* mutant: stats.get('viewCount', 0), and an empty statistics for no item
get_video_details_zero_views(response) ==
    LET stats == IF response.raised \/ Len(response.items) = 0 THEN <<>>
                 ELSE response.items[1].statistics
    IN  [raised |-> FALSE, exc |-> "",
         views    |-> int_get(stats, "viewCount"),
         likes    |-> int_get(stats, "likeCount"),
         comments |-> int_get(stats, "commentCount")]

Raise(exc) ==
    [raised |-> TRUE, exc |-> exc, views |-> 0, likes |-> 0, comments |-> 0]

\* no try/except: an HttpError of execute(), the IndexError of items[0] and
\* the KeyError of stats['viewCount'] leave the function as exceptions
get_video_details(response) ==
    IF response.raised THEN Raise("HttpError")
    ELSE IF Len(response.items) = 0 THEN Raise("IndexError")
    ELSE LET stats == response.items[1].statistics
         IN  IF "viewCount" \notin DOMAIN stats
             THEN Raise("KeyError")
             ELSE [raised |-> FALSE, exc |-> "",
                   views    |-> int(stats["viewCount"]),
                   likes    |-> int_get(stats, "likeCount"),
                   comments |-> int_get(stats, "commentCount")]

-----------------------------------------------------------------------------
(* calculate_title_relevance_score, lines 108-109: 1.0 is 1, 0.0 is 0 *)

calculate_title_relevance_score(title, topic) ==
    IF Contains(lower(title), lower(topic)) THEN 1 ELSE 0

-----------------------------------------------------------------------------
(* calculate_rating, lines 112-123.  The result is in tenths: the code's   *)
(* round(min(rating * 10, 10), 1) times 10.  All numbers stay below 2^31:  *)
(* fractions are compared by continued fractions, never cross-multiplied.  *)

ViewsScale == 1000000
CommentsScale == 1000
RelevanceWeight == 6      \* 0.6, in tenths
EngagementWeight == 2     \* 0.2
ViewsWeight == 1          \* 0.1
CommentsWeight == 2       \* 0.2
RatingCeiling == 10

\* -1, 0 or 1 as p/q is below, equal to or above r/s  (p, r >= 0; q, s > 0)
RECURSIVE CmpFrac(_, _, _, _)
CmpFrac(p, q, r, s) ==
    IF p \div q < r \div s THEN -1
    ELSE IF p \div q > r \div s THEN 1
    ELSE IF p % q = 0 /\ r % s = 0 THEN 0
    ELSE IF p % q = 0 THEN -1
    ELSE IF r % s = 0 THEN 1
    ELSE CmpFrac(s, r % s, q, p % q)

\* the same with a numerator n of any sign on the right
CmpFracSigned(p, q, n, s) == IF n < 0 THEN 1 ELSE CmpFrac(p, q, n, s)

Min(a, b) == IF a <= b THEN a ELSE b

\* 100 * (0.1 * views / 1000000 + 0.2 * comments / 1000), times ViewsScale
ScaledSum(views, comments) ==
    10 * ViewsWeight * views
      + 10 * CommentsWeight * (ViewsScale \div CommentsScale) * comments

\* rating * 100 = whole + a/b + c/d  with  0 <= a/b < 1  and  0 <= c/d < 1,
\* b = views + 1 and d = ViewsScale
RatingWhole(views, likes, comments, score) ==
    10 * RelevanceWeight * score
      + (10 * EngagementWeight * likes) \div (views + 1)
      + ScaledSum(views, comments) \div ViewsScale

EngagementRest(views, likes) == (10 * EngagementWeight * likes) % (views + 1)

ScaledRest(views, comments) == ScaledSum(views, comments) % ViewsScale

\* how a/b + c/d compares to k/2
CmpRestToHalves(views, likes, comments, k) ==
    CmpFracSigned(EngagementRest(views, likes), views + 1,
                  k * ViewsScale - 2 * ScaledRest(views, comments),
                  2 * ViewsScale)

\* The nearest tenths to rating * 10.  Away from a tie that is one value.
\* On an exact tie of the real-number value the float the code holds lies
\* just below or just above it, so round() can give either neighbour.
nearest_tenths(video_details, title_relevance_score) ==
    LET views    == video_details.views
        likes    == video_details.likes
        comments == video_details.comments
        whole    == RatingWhole(views, likes, comments, title_relevance_score)
        lowHalf  == CmpRestToHalves(views, likes, comments, 1)
        highHalf == CmpRestToHalves(views, likes, comments, 3)
    IN  IF lowHalf < 0 THEN {whole}
        ELSE IF lowHalf = 0 THEN {whole, whole + 1}
        ELSE IF highHalf < 0 THEN {whole + 1}
        ELSE IF highHalf = 0 THEN {whole + 1, whole + 2}
        ELSE {whole + 2}

\* mutant: round(rating * 10, 1), the ceiling forgotten
calculate_rating_unclamped(video_details, title_relevance_score) ==
    nearest_tenths(video_details, title_relevance_score)

\* round(min(rating * 10, 10), 1), line 123: the values it can give
calculate_rating(video_details, title_relevance_score) ==
    {Min(t, 10 * RatingCeiling) :
        t \in nearest_tenths(video_details, title_relevance_score)}

-----------------------------------------------------------------------------
(* results.sort(key=rating, reverse=True), line 155: list.sort is stable,  *)
(* with reverse=True too (equal ratings keep their order).                 *)

\* mutant: v put before the entries of equal rating
InsertDesc_unstable(sorted, v) ==
    LET n == Cardinality({i \in 1..Len(sorted) : sorted[i].rating > v.rating})
    IN  SubSeq(sorted, 1, n) \o <<v>> \o SubSeq(sorted, n + 1, Len(sorted))

\* v put after every entry whose rating is at least v's
InsertDesc(sorted, v) ==
    LET n == Cardinality({i \in 1..Len(sorted) : sorted[i].rating >= v.rating})
    IN  SubSeq(sorted, 1, n) \o <<v>> \o SubSeq(sorted, n + 1, Len(sorted))

RECURSIVE sort_by_rating(_)
sort_by_rating(list) ==
    IF Len(list) = 0 THEN <<>>
    ELSE InsertDesc(sort_by_rating(SubSeq(list, 1, Len(list) - 1)),
                    list[Len(list)])

TopN == 1

\* results[:1], line 156
top(list) == SubSeq(list, 1, Min(TopN, Len(list)))

-----------------------------------------------------------------------------
(* What the user and the remote services can give *)

\* the longest concept sequence a run is followed for
MaxConcepts == 2

AllInputs ==
    {"", " ", " \t ", "loops", "loops in Python", "loops and arrays",
     "loops , arrays", "loops AND arrays", "loops,", "loops or loops",
     "arrays,,loops", "loops, arrays and loops"}

Inputs == {s \in AllInputs : Len(s) = 0 \/ Len(final_concepts(s)) <= MaxConcepts}

Item(id, title, description) ==
    [videoId |-> id, title |-> title, description |-> description,
     channelTitle |-> "channel", publishedAt |-> "2024-01-01T00:00:00Z"]

\* title and description of the items a search can return
ItemTexts ==
    {<<"Loops in Python", "A guide for beginners">>,
     <<"Intro to Arrays", "Arrays from scratch">>,
     <<"Loops in Python (hindi)", "A guide for beginners">>,
     <<"Loops in Python", "Une introduction tr" \o "è" \o "s simple">>}

VideoIds == <<"vidA", "vidB">>

\* request.execute() of the search: HttpError, or up to max_results items
SearchResponses ==
    {[raised |-> TRUE, error |-> "quotaExceeded", items |-> <<>>]}
    \cup
    {[raised |-> FALSE, error |-> "",
      items  |-> [i \in 1..Len(texts) |->
                    Item(VideoIds[i], texts[i][1], texts[i][2])]] :
        texts \in UNION {[1..n -> ItemTexts] : n \in 0..max_results}}

Stats(fields) == [raised |-> FALSE, items |-> <<[statistics |-> fields]>>]

\* request.execute() of the statistics call: HttpError, or the items
StatsResponses ==
    {[raised |-> TRUE, items |-> <<>>],
     [raised |-> FALSE, items |-> <<>>],
     Stats([likeCount |-> "5", commentCount |-> "60"]),
     Stats([viewCount |-> "1000000"]),
     Stats([viewCount |-> "1000", likeCount |-> "10", commentCount |-> "49"]),
     Stats([viewCount |-> "1000", likeCount |-> "10", commentCount |-> "50"]),
     Stats([viewCount |-> "1000000", likeCount |-> "10000",
            commentCount |-> "1000"]),
     Stats([viewCount |-> "2000000", commentCount |-> "500"])}

\* final_concepts, search_videos and get_video_details on every input and
\* response, worked out once
parsed == [input \in Inputs |-> final_concepts(input)]

search_outcome == [response \in SearchResponses |-> search_videos(response)]

details_outcome == [response \in StatsResponses |-> get_video_details(response)]

None == [type |-> "None", text |-> "", dict |-> <<>>]

NoResponse == [raised |-> FALSE, error |-> "", items |-> <<>>]

NoRating == [views |-> 0, likes |-> 0, comments |-> 0, score |-> 0]

-----------------------------------------------------------------------------
(* The script run of the tutorial button, lines 176-199, with             *)
(* find_top_rated_videos, lines 126-158, stepping at every remote call    *)

Init ==
    /\ user_input \in Inputs
    /\ pc = "idle"
    /\ topics = <<>>
    /\ ti = 0
    /\ videos = <<>>
    /\ vi = 0
    /\ results = <<>>
    /\ all_results = <<>>
    /\ top_videos = None
    /\ shown = <<>>
    /\ calls = <<>>
    /\ last_search = NoResponse
    /\ fetched = <<>>
    /\ kept = <<>>
    /\ rating_in = NoRating
    /\ rating_out = -1

\* lines 176-185 and 198-199: the button is pressed
ClickTutorial ==
    /\ pc = "idle"
    /\ IF Len(user_input) > 0
       THEN /\ topics' = parsed[user_input]
            /\ ti' = 1
            /\ pc' = "topic"
            /\ UNCHANGED shown
       ELSE /\ shown' = <<"Please enter a question to find a tutorial.">>
            /\ pc' = "prompt"
            /\ UNCHANGED <<topics, ti>>
    /\ UNCHANGED <<user_input, videos, vi, results, all_results, top_videos,
                   calls, last_search, fetched, kept, rating_in, rating_out>>

\* lines 130-135, and 187-188 when the search failed
SearchTopic ==
    /\ pc = "topic"
    /\ ti <= Len(topics)
    /\ \E response \in SearchResponses :
          LET found == search_outcome[response]
          IN  /\ calls' = Append(calls, [api |-> "search", topic |-> ti,
                                         video |-> 0, failed |-> response.raised])
              /\ last_search' = response
              /\ fetched' = <<>>
              /\ IF found.type = "str"
                 THEN /\ top_videos' = [type |-> "str", text |-> found.text,
                                        dict |-> <<>>]
                      /\ shown' = <<found.text>>
                      /\ pc' = "failed"
                      /\ UNCHANGED <<videos, vi, results>>
                 ELSE /\ videos' = found.list
                      /\ vi' = 1
                      /\ results' = <<>>
                      /\ pc' = "video"
                      /\ UNCHANGED <<top_videos, shown>>
    /\ UNCHANGED <<user_input, topics, ti, all_results, kept, rating_in,
                   rating_out>>

\* mutant: comments > 50
qualifies_above(video_details) == video_details.comments > 50

\* line 143
qualifies(video_details) == video_details.comments >= 50

\* lines 146-153
result_entry(video, rating) ==
    [title         |-> video.title,
     channel_name  |-> video.channel_title,
     date_uploaded |-> video.published_at,
     rating        |-> rating,
     url           |-> video.url,
     video_id      |-> video.video_id]

\* mutant: a statistics call that raised is issued again
RateVideo_retry ==
    /\ pc = "video"
    /\ vi <= Len(videos)
    /\ \E response \in StatsResponses :
          LET video         == videos[vi]
              video_details == details_outcome[response]
              score == calculate_title_relevance_score(video.title, topics[ti])
          IN  /\ calls' = Append(calls, [api |-> "stats", topic |-> ti,
                                         video |-> vi,
                                         failed |-> video_details.raised])
              /\ fetched' = Append(fetched, [response |-> response,
                                             details  |-> video_details])
              /\ IF video_details.raised
                 THEN UNCHANGED <<top_videos, pc, vi, results>>
                 ELSE /\ vi' = vi + 1
                      /\ UNCHANGED <<top_videos, pc>>
                      /\ IF qualifies(video_details)
                         THEN \E rating \in calculate_rating(video_details, score) :
                                results' = Append(results, result_entry(video, rating))
                         ELSE UNCHANGED results
    /\ UNCHANGED <<user_input, topics, ti, videos, all_results, shown,
                   last_search, kept, rating_in, rating_out>>

\* lines 136-153: one turn of the inner loop
RateVideo ==
    /\ pc = "video"
    /\ vi <= Len(videos)
    /\ \E response \in StatsResponses :
          LET video         == videos[vi]
              video_details == details_outcome[response]
              score == calculate_title_relevance_score(video.title, topics[ti])
          IN  /\ calls' = Append(calls, [api |-> "stats", topic |-> ti,
                                         video |-> vi,
                                         failed |-> video_details.raised])
              /\ fetched' = Append(fetched, [response |-> response,
                                             details  |-> video_details])
              /\ IF video_details.raised
                 THEN /\ top_videos' = [type |-> "exception",
                                        text |-> video_details.exc, dict |-> <<>>]
                      /\ pc' = "raised"
                      /\ UNCHANGED <<vi, results>>
                 ELSE /\ vi' = vi + 1
                      /\ UNCHANGED <<top_videos, pc>>
                      /\ IF qualifies(video_details)
                         THEN \E rating \in calculate_rating(video_details, score) :
                                results' = Append(results, result_entry(video, rating))
                         ELSE UNCHANGED results
    /\ UNCHANGED <<user_input, topics, ti, videos, all_results, shown,
                   last_search, kept, rating_in, rating_out>>

\* mutant: all_results.setdefault(topic, value)
dict_set_keep_first(dict, key, value) ==
    [k \in DOMAIN dict \cup {key} |-> IF k \in DOMAIN dict THEN dict[k] ELSE value]

\* all_results[topic] = value
dict_set(dict, key, value) ==
    [k \in DOMAIN dict \cup {key} |-> IF k = key THEN value ELSE dict[k]]

\* lines 155-156: the inner loop is over
StoreTopic ==
    /\ pc = "video"
    /\ vi > Len(videos)
    /\ all_results' = dict_set(all_results, topics[ti], top(sort_by_rating(results)))
    /\ kept' = Append(kept, top(sort_by_rating(results)))
    /\ ti' = ti + 1
    /\ pc' = "topic"
    /\ UNCHANGED <<user_input, topics, videos, vi, results, top_videos, shown,
                   calls, last_search, fetched, rating_in, rating_out>>

\* mutant: the function ends without its return statement
ReturnResults_none ==
    /\ pc = "topic"
    /\ ti > Len(topics)
    /\ top_videos' = None
    /\ shown' = <<"tutorials">>
    /\ pc' = "done"
    /\ UNCHANGED <<user_input, topics, ti, videos, vi, results, all_results,
                   calls, last_search, fetched, kept, rating_in, rating_out>>

\* line 158, and 189-197: the outer loop is over
ReturnResults ==
    /\ pc = "topic"
    /\ ti > Len(topics)
    /\ top_videos' = [type |-> "dict", text |-> "", dict |-> all_results]
    /\ shown' = <<"tutorials">>
    /\ pc' = "done"
    /\ UNCHANGED <<user_input, topics, ti, videos, vi, results, all_results,
                   calls, last_search, fetched, kept, rating_in, rating_out>>

Next ==
    \/ ClickTutorial
    \/ SearchTopic
    \/ RateVideo
    \/ StoreTopic
    \/ ReturnResults

Spec == Init /\ [][Next]_vars

\* a script run is one thread: it keeps running until it returns or raises
FairSpec == Spec /\ WF_vars(Next)

-----------------------------------------------------------------------------
(* calculate_rating called on its own *)

RatingViews == {0, 1, 999, 1000, 1000000, 5000000}
RatingLikes == {0, 1, 10, 10000, 2000000}
RatingComments == {0, 25, 49, 50, 75, 1000, 4000}

InitRating ==
    /\ user_input = ""
    /\ pc = "rating"
    /\ topics = <<>>
    /\ ti = 0
    /\ videos = <<>>
    /\ vi = 0
    /\ results = <<>>
    /\ all_results = <<>>
    /\ top_videos = None
    /\ shown = <<>>
    /\ calls = <<>>
    /\ last_search = NoResponse
    /\ fetched = <<>>
    /\ kept = <<>>
    /\ rating_in \in [views : RatingViews, likes : RatingLikes,
                      comments : RatingComments, score : {0, 1}]
    /\ rating_out = -1

CallRating ==
    /\ pc = "rating"
    /\ \E rating \in calculate_rating(rating_in, rating_in.score) :
          rating_out' = rating
    /\ pc' = "rated"
    /\ UNCHANGED <<user_input, topics, ti, videos, vi, results, all_results,
                   top_videos, shown, calls, last_search, fetched, kept,
                   rating_in>>

SpecRating == InitRating /\ [][CallRating]_vars

-----------------------------------------------------------------------------
(* Properties *)

Range(seq) == {seq[i] : i \in 1..Len(seq)}

Ended == pc \in {"done", "failed", "raised", "prompt"}

\* C1: when the search call of a topic signals an error, the operation
\* returns exactly that error string and no ResultSet, and the handler shows
\* it, whatever was ranked for earlier topics; the failed search is the last
\* thing the run did.
C1_FailFastOnSearchError ==
    last_search.raised =>
        /\ pc = "failed"
        /\ top_videos = [type |-> "str",
                         text |-> "An HTTP error occurred: " \o last_search.error,
                         dict |-> <<>>]
        /\ shown = <<top_videos.text>>
        /\ calls[Len(calls)] = [api |-> "search", topic |-> ti, video |-> 0,
                                failed |-> TRUE]

\* the search of the second topic failed after the first topic got a tutorial
C1_Witness ==
    /\ pc = "failed"
    /\ last_search.raised
    /\ ti = 2
    /\ Len(kept) = 1
    /\ Len(kept[1]) = 1
    /\ top_videos.type = "str"

\* the titles and descriptions a search can return that is_english accepts
EnglishTexts ==
    {t \in {x[1] : x \in ItemTexts} \cup {x[2] : x \in ItemTexts} : is_english(t)}

\* every entry of results comes from a video of this topic whose fetched
\* comment count is at least 50 and whose title and description, as the
\* search returned them, are English
ResultsQualified ==
    \A n \in 1..Len(results) :
        \E j \in 1..Len(fetched) :
            /\ videos[j].video_id = results[n].video_id
            /\ videos[j].title = results[n].title
            /\ ~fetched[j].details.raised
            /\ fetched[j].details.comments >= 50
            /\ \E m \in 1..Len(last_search.items) :
                  /\ last_search.items[m].videoId = results[n].video_id
                  /\ last_search.items[m].title \in EnglishTexts
                  /\ last_search.items[m].description \in EnglishTexts

\* every video fetched with at least 50 comments has its entry in results
QualifiedInResults ==
    \A j \in 1..Len(fetched) :
        (~fetched[j].details.raised /\ fetched[j].details.comments >= 50)
            => \E n \in 1..Len(results) :
                  results[n].video_id = videos[j].video_id

\* C2: in every state of a run, the entries of a topic's results are exactly
\* the fetched candidates with at least 50 comments (49 is out, 50 is in),
\* all of them English in title and description at search time; whatever is
\* put into all_results is taken from those entries, and the returned
\* ResultSet is all_results.
C2_QualityFloor ==
    /\ [](pc # "failed" => (ResultsQualified /\ QualifiedInResults))
    /\ [][\A k \in DOMAIN all_results' :
             (k \notin DOMAIN all_results \/ all_results'[k] # all_results[k])
                => Range(all_results'[k]) \subseteq Range(results)]_vars
    /\ [](top_videos.type = "dict" => top_videos.dict = all_results)

\* a video with 49 comments was left out and the next, with 50, was taken
C2_Witness ==
    /\ pc = "video"
    /\ Len(fetched) = 2
    /\ fetched[1].details.comments = 49
    /\ fetched[2].details.comments = 50
    /\ Len(results) = 1
    /\ results[1].video_id = videos[2].video_id

\* the index of the entry the claim keeps: of maximal rating, and the first
\* of those
IsFirstBest(list, j) ==
    /\ \A m \in 1..Len(list) : list[m].rating <= list[j].rating
    /\ \A m \in 1..(j - 1) : list[m].rating < list[j].rating

IndexIn(list, e) == CHOOSE i \in 1..Len(list) : list[i] = e

\* C3: the sorted results hold the same entries in descending rating, equal
\* ratings in discovery order, and the one tutorial kept for a finished
\* topic is the entry of maximal rating that was discovered first (nothing
\* is kept when nothing qualified).
C3_StableDescendingTop ==
    LET sorted == sort_by_rating(results)
    IN  /\ Len(sorted) = Len(results)
        /\ Range(sorted) = Range(results)
        /\ \A a, b \in 1..Len(sorted) :
              a < b =>
                /\ sorted[a].rating >= sorted[b].rating
                /\ sorted[a].rating = sorted[b].rating
                      => IndexIn(results, sorted[a]) < IndexIn(results, sorted[b])
        /\ (pc \in {"topic", "done"} /\ ti > 1) =>
              /\ kept[ti - 1] = all_results[topics[ti - 1]]
              /\ IF Len(results) = 0
                 THEN kept[ti - 1] = <<>>
                 ELSE \E j \in 1..Len(results) :
                        /\ IsFirstBest(results, j)
                        /\ kept[ti - 1] = <<results[j]>>

\* two qualifying candidates of equal rating: the first discovered is kept
C3_Witness ==
    /\ pc = "topic"
    /\ ti > 1
    /\ Len(results) = 2
    /\ results[1].rating = results[2].rating
    /\ results[1].video_id # results[2].video_id
    /\ all_results[topics[ti - 1]] = <<results[1]>>

C5_BlankInputShortCircuit ==
    (strip(user_input) = "" /\ pc # "idle") =>
        /\ pc = "prompt"
        /\ topics = <<>>
        /\ calls = <<>>
        /\ shown = <<"Please enter a question to find a tutorial.">>

\* the parser of the claim: separators in any letter case, empty pieces
\* dropped, " in Python" added only where "in Python" is not in the piece
claimed_concepts(input) ==
    LET parts == SplitFrom(input, 1, 1, TRUE)
        stripped == [i \in 1..Len(parts) |-> strip(parts[i])]
        NonEmpty(t) == Len(t) > 0
        tokens == SelectSeq(stripped, NonEmpty)
    IN  [i \in 1..Len(tokens) |->
            IF Contains(tokens[i], "in Python") THEN tokens[i]
            ELSE tokens[i] \o " in Python"]

\* C6 as stated, for an input that is not blank: the concepts handed to the
\* selector are the trimmed non-empty pieces between commas, "and" and "or"
\* in any letter case, each with " in Python" appended exactly when it does
\* not contain "in Python".
C6_ParserAsSpecified ==
    (strip(user_input) # "" /\ pc \in {"topic", "video", "done", "failed", "raised"})
        => topics = claimed_concepts(user_input)

\* the sign of 2 * T - n, T being the claim's
\*   100 * (0.6 r + 0.2 likes / (views + 1) + 0.1 views / 10^6 + 0.2 comments / 10^3)
TwiceRatingVs(in, n) ==
    CmpFracSigned(40 * in.likes, in.views + 1,
                  (n - 120 * in.score) * 1000000 - 20 * in.views
                      - 40000 * in.comments,
                  1000000)

RatingExample ==
    [views |-> 1000000, likes |-> 10000, comments |-> 1000, score |-> 1]

\* C7: calculate_rating gives a value from 0 to 10 (0 to 100 tenths): 10
\* when the weighted sum times 10 is 10 or more, else a tenth within half a
\* tenth of it; the example of the specification gives 9.0.
C7_RatingFormula ==
    pc = "rated" =>
        /\ rating_out \in 0..100
        /\ IF TwiceRatingVs(rating_in, 200) >= 0
           THEN rating_out = 100
           ELSE /\ TwiceRatingVs(rating_in, 2 * rating_out - 1) >= 0
                /\ TwiceRatingVs(rating_in, 2 * rating_out + 1) <= 0
        /\ (rating_in = RatingExample => rating_out = 90)

C7_Witness == pc = "rated" /\ rating_in = RatingExample /\ rating_out = 90

\* C8: of every statistics response fetched, get_video_details raised when
\* the call failed, no item came back or the view count was missing, which
\* ended the run with no VideoStats; otherwise it gave the view count as
\* sent, and likes and comments as sent or 0 where absent.
C8_VideoStatsContract ==
    \A j \in 1..Len(fetched) :
        LET response == fetched[j].response
            details  == fetched[j].details
            missing  == \/ response.raised
                        \/ Len(response.items) = 0
                        \/ "viewCount" \notin DOMAIN response.items[1].statistics
        IN  IF missing
            THEN /\ details.raised
                 /\ pc = "raised"
                 /\ j = Len(fetched)
                 /\ top_videos.type = "exception"
            ELSE LET stats == response.items[1].statistics
                 IN  /\ ~details.raised
                     /\ details.views = int(stats.viewCount)
                     /\ details.likes =
                          IF "likeCount" \in DOMAIN stats
                          THEN int(stats.likeCount) ELSE 0
                     /\ details.comments =
                          IF "commentCount" \in DOMAIN stats
                          THEN int(stats.commentCount) ELSE 0

\* one response had only a view count (likes and comments 0), the next had
\* likes and comments but no view count and raised
C8_Witness ==
    /\ pc = "raised"
    /\ Len(fetched) = 2
    /\ DOMAIN fetched[1].response.items[1].statistics = {"viewCount"}
    /\ fetched[1].details.views = 1000000
    /\ fetched[1].details.likes = 0
    /\ fetched[1].details.comments = 0
    /\ Len(fetched[2].response.items) = 1
    /\ "viewCount" \notin DOMAIN fetched[2].response.items[1].statistics
    /\ fetched[2].details.exc = "KeyError"

\* C9: the calls start with the search of the first topic; each further
\* call is the statistics call of the next surviving video of the same
\* topic or the search of the next topic; so no call is issued twice and a
\* filtered-out video is never fetched; a call that failed is the last call
\* of the run.
C9_NoRetries ==
    /\ Len(calls) > 0 => calls[1] = [api |-> "search", topic |-> 1, video |-> 0,
                                     failed |-> calls[1].failed]
    /\ \A n \in 1..(Len(calls) - 1) :
          /\ ~calls[n].failed
          /\ \/ /\ calls[n + 1].api = "stats"
                /\ calls[n + 1].topic = calls[n].topic
                /\ calls[n + 1].video = calls[n].video + 1
             \/ /\ calls[n + 1].api = "search"
                /\ calls[n + 1].topic = calls[n].topic + 1
                /\ calls[n + 1].video = 0
    /\ \A n \in 1..Len(calls) :
          /\ calls[n].topic \in 1..Len(topics)
          /\ (calls[n].api = "stats" /\ calls[n].topic = ti)
                => calls[n].video \in 1..Len(videos)
    /\ (Len(calls) > 0 /\ calls[Len(calls)].failed) <=> pc \in {"failed", "raised"}

\* the second statistics call of the second topic failed and ended the run
C9_Witness ==
    /\ pc = "raised"
    /\ Len(calls) >= 5
    /\ calls[Len(calls)] = [api |-> "stats", topic |-> 2, video |-> 2,
                            failed |-> TRUE]

LastIndexOf(k) ==
    CHOOSE i \in 1..Len(topics) :
        topics[i] = k /\ \A j \in (i + 1)..Len(topics) : topics[j] # k

\* C10: when the run is Done, every occurrence of a concept was searched
\* once, the ResultSet has one key for each distinct concept, each key maps
\* to at most one tutorial, and the value of a concept is what was computed
\* for its last occurrence.
C10_ResultSetShape ==
    pc = "done" =>
        /\ \A i \in 1..Len(topics) :
              Cardinality({n \in 1..Len(calls) :
                  calls[n].api = "search" /\ calls[n].topic = i}) = 1
        /\ Len(kept) = Len(topics)
        /\ DOMAIN top_videos.dict = Range(topics)
        /\ \A k \in DOMAIN top_videos.dict :
              /\ Len(top_videos.dict[k]) <= 1
              /\ top_videos.dict[k] = kept[LastIndexOf(k)]

\* a concept given twice: the first occurrence got a tutorial, the last got
\* none, and the ResultSet maps the concept to the empty sequence
C10_Witness ==
    /\ pc = "done"
    /\ Len(topics) = 2
    /\ topics[1] = topics[2]
    /\ Len(kept[1]) = 1
    /\ kept[2] = <<>>
    /\ top_videos.dict[topics[1]] = <<>>

=============================================================================
